---------------------------- MODULE Spec2Model ----------------------------
(***************************************************************************)
(* Model of image_to_glsl_array (src/main.rs): the command-line run that   *)
(* decodes an image, serialises it as a GLSL vec4 array and writes it to   *)
(* the output file.  Text is modelled as sequences of one-character        *)
(* strings; the f64 arithmetic of the channel normalisation is modelled on *)
(* exact integer significands (sequences of 15-bit limbs).                 *)
(***************************************************************************)
EXTENDS Integers, Sequences, FiniteSets, TLC

(***************************************************************************)
(* Bounds of the model.                                                    *)
(***************************************************************************)
MaxW == 2
MaxH == 2
StripLen == 10
OldLen == 120

(***************************************************************************)
(* Program constants.                                                      *)
(***************************************************************************)
ChannelMax == 255
Precision == 7
F64Bits == 53
ExitFailure == 1
ExitUsage == 2
ExitPanic == 101

(***************************************************************************)
(* Unbounded naturals as sequences of 15-bit limbs, least significant limb *)
(* first (every intermediate product stays below 2^31).                    *)
(***************************************************************************)
LimbBits == 15

RECURSIVE Pow2(_)
Pow2(k) == IF k = 0 THEN 1 ELSE 2 * Pow2(k - 1)

Base == Pow2(LimbBits)

RECURSIVE Pow10(_)
Pow10(p) == IF p = 0 THEN 1 ELSE 10 * Pow10(p - 1)

RECURSIVE SmallBitLen(_)
SmallBitLen(n) == IF n = 0 THEN 0 ELSE 1 + SmallBitLen(n \div 2)

RECURSIVE LimbsOf(_)
LimbsOf(n) == IF n = 0 THEN <<>> ELSE <<n % Base>> \o LimbsOf(n \div Base)

\* Only applied to values below 2^31.
RECURSIVE ToInt(_)
ToInt(a) == IF a = <<>> THEN 0 ELSE Head(a) + Base * ToInt(Tail(a))

RECURSIVE Trim(_)
Trim(a) ==
    IF a = <<>> THEN <<>>
    ELSE IF a[Len(a)] = 0 THEN Trim(SubSeq(a, 1, Len(a) - 1))
    ELSE a

IsZero(a) == \A i \in 1..Len(a) : a[i] = 0

BitLen(a) ==
    LET t == Trim(a)
    IN  IF t = <<>> THEN 0
        ELSE LimbBits * (Len(t) - 1) + SmallBitLen(t[Len(t)])

\* a + n for a small n.
RECURSIVE AddSmall(_, _)
AddSmall(a, n) ==
    IF n = 0 THEN a
    ELSE IF a = <<>> THEN LimbsOf(n)
    ELSE LET t == Head(a) + n
         IN  <<t % Base>> \o AddSmall(Tail(a), t \div Base)

\* a * k + carry for small k, carry (both below Base).
RECURSIVE MulSmall(_, _, _)
MulSmall(a, k, carry) ==
    IF a = <<>> THEN LimbsOf(carry)
    ELSE LET t == Head(a) * k + carry
         IN  <<t % Base>> \o MulSmall(Tail(a), k, t \div Base)

\* Long division of a by a small positive d (at most Base).
RECURSIVE DivSmall(_, _)
DivSmall(a, d) ==
    IF a = <<>> THEN [q |-> <<>>, r |-> 0]
    ELSE LET hi == DivSmall(Tail(a), d)
             cur == Base * hi.r + Head(a)
         IN  [q |-> <<cur \div d>> \o hi.q, r |-> cur % d]

\* a * 2^(LimbBits * n).
ShiftLimbs(a, n) == IF IsZero(a) THEN <<>> ELSE [i \in 1..n |-> 0] \o a

\* floor(a / 2^k), and whether any discarded bit was set.
FloorShift(a, k) ==
    LET n == k \div LimbBits
        r == k % LimbBits
        dropped == SubSeq(a, 1, IF n < Len(a) THEN n ELSE Len(a))
        kept == SubSeq(a, n + 1, Len(a))
        d == DivSmall(kept, Pow2(r))
    IN  [q |-> Trim(d.q), sticky |-> ~IsZero(dropped) \/ d.r # 0]

\* a / 2^k rounded to the nearest integer, ties to even.
RoundShiftRight(a, k) ==
    IF k = 0 THEN Trim(a)
    ELSE LET f == FloorShift(a, k - 1)
             h == DivSmall(f.q, 2)
             odd == h.q # <<>> /\ h.q[1] % 2 = 1
             up == h.r = 1 /\ (f.sticky \/ odd)
         IN  Trim(IF up THEN AddSmall(h.q, 1) ELSE h.q)

(***************************************************************************)
(* IEEE-754 binary64 values in the normal range: m * 2^e with a            *)
(* significand m of at most 53 bits.                                       *)
(***************************************************************************)
\* Round the exact value a * 2^e to the nearest binary64 (ties to even).
RoundToF64(a, e) ==
    LET n == BitLen(a)
    IN  IF n <= F64Bits THEN [m |-> Trim(a), e |-> e]
        ELSE [m |-> RoundShiftRight(a, n - F64Bits), e |-> e + (n - F64Bits)]

\* `n as f64` for a non-negative integer below 2^31: exact.
F64FromInt(n) == [m |-> LimbsOf(n), e |-> 0]

\* a / b correctly rounded, for a divisor whose significand is below Base.
F64Div(a, b) ==
    LET s == 6
        qr == DivSmall(ShiftLimbs(a.m, s), ToInt(b.m))
        sticky == IF qr.r = 0 THEN 0 ELSE 1
    IN  RoundToF64(MulSmall(qr.q, 2, sticky), a.e - b.e - LimbBits * s - 1)

\* a * b correctly rounded, for a factor b whose significand is below Base.
F64Mul(a, b) == RoundToF64(MulSmall(a.m, ToInt(b.m), 0), a.e + b.e)

\* Mutation: the digits are cut off instead of rounded.
FixedDigitsTrunc(f, p) ==
    LET lo == Pow10(p \div 2)
        hi == Pow10(p - p \div 2)
        scaled == MulSmall(MulSmall(f.m, lo, 0), hi, 0)
    IN  IF f.e >= 0 THEN ToInt(MulSmall(scaled, Pow2(f.e), 0))
        ELSE ToInt(FloorShift(scaled, 0 - f.e).q)

\* The integer round(f * 10^p) for p <= 8, ties to even: the digits that
\* "{:.p}" prints for a non-negative f64 (the result is below 2^31).
FixedDigits(f, p) ==
    LET lo == Pow10(p \div 2)
        hi == Pow10(p - p \div 2)
        scaled == MulSmall(MulSmall(f.m, lo, 0), hi, 0)
    IN  IF f.e >= 0 THEN ToInt(MulSmall(scaled, Pow2(f.e), 0))
        ELSE ToInt(RoundShiftRight(scaled, 0 - f.e))

\* Mutation: the channel is divided by 256 instead of 255.
NormalizedBy256(c) ==
    F64Mul(F64Div(F64FromInt(1), F64FromInt(ChannelMax + 1)), F64FromInt(c))

\* (1 as f64) / (255 as f64) * (pixel[k] as f64)
Normalized(c) ==
    F64Mul(F64Div(F64FromInt(1), F64FromInt(ChannelMax)), F64FromInt(c))

(***************************************************************************)
(* Text: sequences of one-character strings.                               *)
(***************************************************************************)
Digits == <<"0", "1", "2", "3", "4", "5", "6", "7", "8", "9">>
DigitChar(d) == Digits[d + 1]

\* Display of an unsigned integer: decimal, no leading zeros.
RECURSIVE ToDecimal(_)
ToDecimal(n) ==
    IF n < 10 THEN <<DigitChar(n)>>
    ELSE ToDecimal(n \div 10) \o <<DigitChar(n % 10)>>

\* The last `width` decimal digits of n, zero padded.
RECURSIVE PadDigits(_, _)
PadDigits(n, width) ==
    IF width = 0 THEN <<>>
    ELSE PadDigits(n \div 10, width - 1) \o <<DigitChar(n % 10)>>

\* format!("{:.p}", f) for a non-negative f64.
FormatFixed(f, p) ==
    LET n == FixedDigits(f, p)
        scale == Pow10(p)
    IN  ToDecimal(n \div scale)
        \o (IF p = 0 THEN <<>> ELSE <<".">> \o PadDigits(n % scale, p))

\* Mutation: one fractional digit fewer.
FormatChannelShort(c) == FormatFixed(Normalized(c), Precision - 1)

\* One "{:.7}" argument of the element format string.
FormatChannel(c) == FormatFixed(Normalized(c), Precision)

VersionLine ==
    <<"#", "v", "e", "r", "s", "i", "o", "n", " ", "4", "2", "0", "\n">>
DeclPrefix == <<"v", "e", "c", "4", " ", "i", "m", "a", "g", "e", "[">>
DeclMiddle == <<"]", "[">>
DeclSuffix == <<"]", " ", "=", " ", "{", "\n">>
Vec4Open == <<"v", "e", "c", "4", "(">>
CommaSpace == <<",", " ">>
Vec4Close == <<")">>
RowOpen == <<"\t", "{">>
RowClose == <<"}">>
CommaNewline == <<",", "\n">>
Terminator == <<"\n", "}", ";">>

\* Mutation: the dimensions are written height first.
DeclarationSwapped(w, h) ==
    DeclPrefix \o ToDecimal(h) \o DeclMiddle \o ToDecimal(w) \o DeclSuffix

\* format!("vec4 image[{}][{}] = {{\n", dimensions.0, dimensions.1)
Declaration(w, h) ==
    DeclPrefix \o ToDecimal(w) \o DeclMiddle \o ToDecimal(h) \o DeclSuffix

\* Mutation: the channels are written blue, green, red, alpha.
FormatPixelBGRA(pixel) ==
    Vec4Open \o FormatChannel(pixel[3]) \o CommaSpace
             \o FormatChannel(pixel[2]) \o CommaSpace
             \o FormatChannel(pixel[1]) \o CommaSpace
             \o FormatChannel(pixel[4]) \o Vec4Close

\* format!("vec4({:.7}, {:.7}, {:.7}, {:.7})", ...) of pixel[0..3]
\* (the tuple is indexed from 1 here).
FormatPixel(pixel) ==
    Vec4Open \o FormatChannel(pixel[1]) \o CommaSpace
             \o FormatChannel(pixel[2]) \o CommaSpace
             \o FormatChannel(pixel[3]) \o CommaSpace
             \o FormatChannel(pixel[4]) \o Vec4Close

\* Mutation: the last element of a row is not recognised.
ElementSeparatorNoLast(last) == CommaSpace

\* match (y + 1) == dimensions.1 { false => ", ", true => "}" }
ElementSeparator(last) == IF last THEN RowClose ELSE CommaSpace

\* match (x + 1) == dimensions.0 { false => ",\n", true => "\n};" }
RowSeparator(last) == IF last THEN Terminator ELSE CommaNewline

(***************************************************************************)
(* Images the decoder can return, and files.                               *)
(***************************************************************************)
Coords(w, h) == (0..(w - 1)) \X (0..(h - 1))

Palette == {<<0, 64, 128, 255>>, <<255, 1, 2, 3>>}

PaletteImages ==
    UNION {{[w |-> w, h |-> h, px |-> f] : f \in [Coords(w, h) -> Palette]} :
           <<w, h>> \in (1..MaxW) \X (1..MaxH)}

\* 1x1 images covering every channel byte.
SweepImages ==
    {[w |-> 1, h |-> 1, px |-> [xy \in Coords(1, 1) |-> <<c, c, c, c>>]] :
     c \in 0..ChannelMax}

\* One wide and one tall image whose pixels differ by position.
StripPixel(xy) ==
    <<(25 * xy[1] + 7 * xy[2]) % (ChannelMax + 1), xy[2],
      ChannelMax - xy[1], 128>>
StripImages ==
    {[w |-> StripLen, h |-> 1, px |-> [xy \in Coords(StripLen, 1) |-> StripPixel(xy)]],
     [w |-> 1, h |-> StripLen, px |-> [xy \in Coords(1, StripLen) |-> StripPixel(xy)]]}

Images == PaletteImages \cup SweepImages \cup StripImages

NoImage == [w |-> 0, h |-> 0, px |-> <<>>]

\* image.get_pixel(x, y).0
GetPixel(img, x, y) == img.px[<<x, y>>]

NoFile == [exists |-> FALSE, data |-> <<>>]
FileOf(data) == [exists |-> TRUE, data |-> data]
OldData(n) == [i \in 1..n |-> "x"]
OldFiles == {NoFile, FileOf(<<>>), FileOf(OldData(3)), FileOf(OldData(OldLen))}

\* Bytes written from offset 0 over the current content of the file.
WriteAt(file, data) ==
    FileOf(data \o SubSeq(file.data, Len(data) + 1, Len(file.data)))

\* Number of bytes that reached the file when write_all fails.
PartialLens(n) == {0, n \div 2, n - 1}

NoExit == 0 - 1

InfoLines ==
    <<"Input file:", "Path", "Format", "Dimensions", "",
      "Output file:", "Path", "Format", "Minimum OpenGL version">>

(***************************************************************************)
(* State of one run of the program.                                        *)
(***************************************************************************)
VARIABLES
    pc,          \* position in main / run
    format,      \* reader.format(): "unset", "Some" or "None"
    image,       \* the decoded image, NoImage before decoding
    x, y,        \* loop variables of the serialisation
    processed,   \* processed_pixels
    output,      \* the String buffer `output`
    opened,      \* output_file has been opened
    outFile,     \* the file at the output path
    oldFile,     \* the file at the output path when the program started
    writes,      \* number of write_all calls made
    result,      \* "none", "ok" or the error run returned
    stdout, stderr,
    exitCode     \* NoExit while the process runs

vars == <<pc, format, image, x, y, processed, output, opened, outFile,
          oldFile, writes, result, stdout, stderr, exitCode>>

Init ==
    /\ pc = "parse_args"
    /\ format = "unset"
    /\ image = NoImage
    /\ x = 0 /\ y = 0 /\ processed = 0
    /\ output = <<>>
    /\ opened = FALSE
    /\ oldFile \in OldFiles
    /\ outFile = oldFile
    /\ writes = 0
    /\ result = "none"
    /\ stdout = <<>> /\ stderr = <<>>
    /\ exitCode = NoExit

\* The ? operator: run returns Err(kind) to main.
Fail(kind) == result' = kind /\ pc' = "report"

\* Arguments::parse(): two required positional arguments; the parser ends
\* the process itself on a usage error (status 2) or on --help (status 0).
ParseArgs ==
    /\ pc = "parse_args"
    /\ \E a \in {"ok", "usage", "help"} :
         CASE a = "ok" ->
                pc' = "open_input" /\ UNCHANGED <<stdout, stderr, exitCode>>
           [] a = "usage" ->
                /\ pc' = "exited" /\ exitCode' = ExitUsage
                /\ stderr' = Append(stderr, "usage")
                /\ UNCHANGED stdout
           [] a = "help" ->
                /\ pc' = "exited" /\ exitCode' = 0
                /\ stdout' = Append(stdout, "help")
                /\ UNCHANGED stderr
    /\ UNCHANGED <<format, image, x, y, processed, output, opened, outFile,
                   oldFile, writes, result>>

\* Mutation: the output file is opened (created, truncated) before the input.
OpenInputAfterOutput ==
    /\ pc = "open_input"
    /\ outFile' = FileOf(<<>>)
    /\ \E ok \in BOOLEAN :
         IF ok THEN pc' = "guess_format" /\ UNCHANGED result
         ELSE Fail("input_open")
    /\ UNCHANGED <<format, image, x, y, processed, output, opened,
                   oldFile, writes, stdout, stderr, exitCode>>

\* ImageReader::open(&arguments.input)?
OpenInput ==
    /\ pc = "open_input"
    /\ \E ok \in BOOLEAN :
         IF ok THEN pc' = "guess_format" /\ UNCHANGED result
         ELSE Fail("input_open")
    /\ UNCHANGED <<format, image, x, y, processed, output, opened, outFile,
                   oldFile, writes, stdout, stderr, exitCode>>

\* .with_guessed_format()?; reader.format()
GuessFormat ==
    /\ pc = "guess_format"
    /\ \E r \in {"io_error", "Some", "None"} :
         IF r = "io_error" THEN Fail("input_read") /\ UNCHANGED format
         ELSE format' = r /\ pc' = "decode" /\ UNCHANGED result
    /\ UNCHANGED <<image, x, y, processed, output, opened, outFile,
                   oldFile, writes, stdout, stderr, exitCode>>

\* reader.decode()?; image.dimensions()
Decode ==
    /\ pc = "decode"
    /\ \/ format = "None" /\ Fail("unsupported") /\ UNCHANGED image
       \/ format = "Some" /\ Fail("decode") /\ UNCHANGED image
       \/ /\ format = "Some"
          /\ \E img \in Images : image' = img
          /\ pc' = "open_output" /\ UNCHANGED result
    /\ UNCHANGED <<format, x, y, processed, output, opened, outFile,
                   oldFile, writes, stdout, stderr, exitCode>>

\* Mutation: the output file is opened without truncate(true).
OpenOutputNoTruncate ==
    /\ pc = "open_output"
    /\ \E ok \in BOOLEAN :
         IF ok
         THEN /\ outFile' = FileOf(outFile.data) /\ opened' = TRUE
              /\ pc' = "print_info" /\ UNCHANGED result
         ELSE Fail("output_open") /\ UNCHANGED <<outFile, opened>>
    /\ UNCHANGED <<format, image, x, y, processed, output,
                   oldFile, writes, stdout, stderr, exitCode>>

\* String::new(); OpenOptions ... create(true) ... truncate(true).open(..)?
OpenOutput ==
    /\ pc = "open_output"
    /\ \E ok \in BOOLEAN :
         IF ok
         THEN /\ outFile' = FileOf(<<>>) /\ opened' = TRUE
              /\ pc' = "print_info" /\ UNCHANGED result
         ELSE Fail("output_open") /\ UNCHANGED <<outFile, opened>>
    /\ UNCHANGED <<format, image, x, y, processed, output,
                   oldFile, writes, stdout, stderr, exitCode>>

\* The println! block; to_str().unwrap() panics on a path that is not UTF-8.
PrintInfo ==
    /\ pc = "print_info"
    /\ \E inUtf8 \in BOOLEAN, outUtf8 \in BOOLEAN :
         LET shown == IF ~inUtf8 THEN 1 ELSE IF ~outUtf8 THEN 6
                      ELSE Len(InfoLines)
         IN  /\ stdout' = stdout \o SubSeq(InfoLines, 1, shown)
             /\ IF inUtf8 /\ outUtf8
                THEN pc' = "header" /\ UNCHANGED <<stderr, exitCode>>
                ELSE /\ pc' = "exited" /\ exitCode' = ExitPanic
                     /\ stderr' = Append(stderr, "panic")
    /\ UNCHANGED <<format, image, x, y, processed, output, opened, outFile,
                   oldFile, writes, result>>

\* processed_pixels = 0; output += "#version 420\n"; output += declaration
Header ==
    /\ pc = "header"
    /\ processed' = 0
    /\ output' = output \o VersionLine \o Declaration(image.w, image.h)
    /\ x' = 0
    /\ pc' = "loop_x"
    /\ UNCHANGED <<format, image, y, opened, outFile, oldFile, writes,
                   result, stdout, stderr, exitCode>>

\* for x in 0..dimensions.0 { output += "\t{"; ...
RowBegin ==
    /\ pc = "loop_x" /\ x < image.w
    /\ output' = output \o RowOpen
    /\ y' = 0
    /\ pc' = "loop_y"
    /\ UNCHANGED <<format, image, x, processed, opened, outFile, oldFile,
                   writes, result, stdout, stderr, exitCode>>

\* Body of for y in 0..dimensions.1
PixelStep ==
    /\ pc = "loop_y" /\ y < image.h
    /\ output' = output \o FormatPixel(GetPixel(image, x, y))
                        \o ElementSeparator(y + 1 = image.h)
    /\ processed' = processed + 1
    /\ y' = y + 1
    /\ UNCHANGED <<pc, format, image, x, opened, outFile, oldFile, writes,
                   result, stdout, stderr, exitCode>>

\* Mutation: every finished row is written to the file at once.
RowEndStreaming ==
    /\ pc = "loop_y" /\ y = image.h
    /\ output' = output \o RowSeparator(x + 1 = image.w)
    /\ x' = x + 1
    /\ pc' = "loop_x"
    /\ outFile' = WriteAt(outFile, output')
    /\ writes' = writes + 1
    /\ UNCHANGED <<format, image, y, processed, opened, oldFile,
                   result, stdout, stderr, exitCode>>

\* End of the inner loop: output += row separator; next x
RowEnd ==
    /\ pc = "loop_y" /\ y = image.h
    /\ output' = output \o RowSeparator(x + 1 = image.w)
    /\ x' = x + 1
    /\ pc' = "loop_x"
    /\ UNCHANGED <<format, image, y, processed, opened, outFile, oldFile,
                   writes, result, stdout, stderr, exitCode>>

\* End of the outer loop.
LoopExit ==
    /\ pc = "loop_x" /\ x = image.w
    /\ pc' = "write"
    /\ UNCHANGED <<format, image, x, y, processed, output, opened, outFile,
                   oldFile, writes, result, stdout, stderr, exitCode>>

\* output_file.write_all(output.as_bytes())?; Ok(())
WriteOutput ==
    /\ pc = "write"
    /\ writes' = writes + 1
    /\ \/ outFile' = WriteAt(outFile, output) /\ Fail("ok")
       \/ \E n \in PartialLens(Len(output)) :
            outFile' = WriteAt(outFile, SubSeq(output, 1, n))
            /\ Fail("output_write")
    /\ UNCHANGED <<format, image, x, y, processed, output, opened,
                   oldFile, stdout, stderr, exitCode>>

\* Mutation: main forgets exit(1).
ReportAlwaysZero ==
    /\ pc = "report"
    /\ stdout' = Append(stdout, IF result = "ok" THEN "Done!" ELSE "error")
    /\ exitCode' = 0
    /\ pc' = "exited"
    /\ UNCHANGED <<format, image, x, y, processed, output, opened, outFile,
                   oldFile, writes, result, stderr>>

\* main: if let Err(error) = run(..) { println!(..); exit(1) }
\*       else { println!("Done!"); Ok(()) }
Report ==
    /\ pc = "report"
    /\ stdout' = Append(stdout, IF result = "ok" THEN "Done!" ELSE "error")
    /\ exitCode' = IF result = "ok" THEN 0 ELSE ExitFailure
    /\ pc' = "exited"
    /\ UNCHANGED <<format, image, x, y, processed, output, opened, outFile,
                   oldFile, writes, result, stderr>>

Next ==
    \/ ParseArgs \/ OpenInput \/ GuessFormat \/ Decode \/ OpenOutput
    \/ PrintInfo \/ Header \/ RowBegin \/ PixelStep \/ RowEnd \/ LoopExit
    \/ WriteOutput \/ Report

Spec == Init /\ [][Next]_vars
(***************************************************************************)
(* Reading the emitted text back.                                          *)
(***************************************************************************)
Pos(t, ch) == {p \in 1..Len(t) : t[p] = ch}

\* The n-th smallest member of a set of positions.
Nth(S, n) == CHOOSE p \in S : Cardinality({q \in S : q < p}) = n - 1

Match(t, p, w) ==
    /\ p >= 1
    /\ p + Len(w) - 1 <= Len(t)
    /\ SubSeq(t, p, p + Len(w) - 1) = w

IsPrefix(a, b) == Len(a) <= Len(b) /\ SubSeq(b, 1, Len(a)) = a

IsDigit(ch) == \E d \in 1..10 : Digits[d] = ch
DigitVal(ch) == (CHOOSE d \in 1..10 : Digits[d] = ch) - 1

RECURSIVE NatValue(_)
NatValue(t) ==
    IF t = <<>> THEN 0
    ELSE 10 * NatValue(SubSeq(t, 1, Len(t) - 1)) + DigitVal(t[Len(t)])

\* A decimal integer without sign or leading zeros.
IsNat(t) ==
    /\ t # <<>>
    /\ \A i \in 1..Len(t) : IsDigit(t[i])
    /\ Len(t) > 1 => t[1] # "0"

\* A decimal literal with exactly p digits after the point.
IsFixed(t, p) ==
    /\ Cardinality(Pos(t, ".")) = 1
    /\ LET d == Nth(Pos(t, "."), 1)
       IN  /\ Len(t) - d = p
           /\ IsNat(SubSeq(t, 1, d - 1))
           /\ \A i \in (d + 1)..Len(t) : IsDigit(t[i])

\* The value of such a literal times 10^p.
Scaled(t) ==
    LET d == Nth(Pos(t, "."), 1)
    IN  NatValue(SubSeq(t, 1, d - 1)) * Pow10(Len(t) - d)
        + NatValue(SubSeq(t, d + 1, Len(t)))

\* 10^7 / 255 = UnitNum / UnitDen in lowest terms.
UnitNum == Pow10(Precision) \div 5
UnitDen == ChannelMax \div 5

Abs(n) == IF n < 0 THEN 0 - n ELSE n

\* n / 10^7 times 255, rounded to the nearest integer.
RoundTripByte(n) == (2 * n * UnitDen + UnitNum) \div (2 * UnitNum)

\* The serialisation loop has ended; the buffer is not changed afterwards.
Serialized == pc = "write"

Ascending(S) == [n \in 1..Cardinality(S) |-> Nth(S, n)]

\* The layout of a text: the newline that ends the declaration line, the
\* positions of the tabs (one per row group) and, per row group, the
\* positions of its "v" (element starts) and of its ")" (element ends).
Doc(t) ==
    LET nl == Pos(t, "\n")
        body == IF Cardinality(nl) >= 2 THEN Nth(nl, 2) ELSE Len(t)
        rows == Ascending(Pos(t, "\t"))
        n == Len(rows)
        rowLast == [i \in 1..n |-> IF i < n THEN rows[i + 1] - 1 ELSE Len(t)]
        vs == {p \in Pos(t, "v") : p > body}
        cs == Pos(t, ")")
    IN  [body |-> body,
         rows |-> rows,
         rowLast |-> rowLast,
         nElems |-> Cardinality(vs),
         elems |-> [i \in 1..n |->
                      Ascending({p \in vs : p > rows[i] /\ p <= rowLast[i]})],
         closes |-> [i \in 1..n |->
                      Ascending({q \in cs : q > rows[i] /\ q <= rowLast[i]})]]

\* The text between "vec4(" at p and the ")" at close.
Inner(t, p, close) == SubSeq(t, p + Len(Vec4Open), close - 1)

\* The k-th of the four comma separated literals of an element.
Token(inner, k) ==
    LET commas == Ascending(Pos(inner, ","))
    IN  SubSeq(inner,
               IF k = 1 THEN 1 ELSE commas[k - 1] + 2,
               IF k = 4 THEN Len(inner) ELSE commas[k] - 1)

WellFormedElement(t, p, close) ==
    /\ Match(t, p, Vec4Open)
    /\ p + Len(Vec4Open) <= close
    /\ LET inner == Inner(t, p, close)
       IN  /\ Cardinality(Pos(inner, ",")) = 3
           /\ Pos(inner, "v") = {}
           /\ \A q \in Pos(inner, ",") : Match(inner, q, CommaSpace)

\* The elements can be addressed by (row group, index in the group).
WellFormedGrid(t, doc) ==
    /\ Len(doc.rows) = image.w
    /\ \A i \in 1..image.w :
         /\ Len(doc.elems[i]) = image.h
         /\ Len(doc.closes[i]) = image.h
         /\ \A j \in 1..image.h :
              WellFormedElement(t, doc.elems[i][j], doc.closes[i][j])

\* The literal of channel k of the j-th element of the i-th row group.
Literal(t, doc, i, j, k) ==
    Token(Inner(t, doc.elems[i][j], doc.closes[i][j]), k)

Channels == 1..4

(***************************************************************************)
(* C1: once the header is in the buffer, the second line of the output is  *)
(* "vec4 image[W][H] = {" with W and H the decimal width and height of the *)
(* decoded image, width first, directly after the "#version 420" line.     *)
(***************************************************************************)
DeclaresDims(t, w, h) ==
    LET ob == Pos(t, "[")
        cb == Pos(t, "]")
    IN  /\ Match(t, 1, VersionLine)
        /\ Match(t, Len(VersionLine) + 1, DeclPrefix)
        /\ Cardinality(ob) = 2 /\ Cardinality(cb) = 2
        /\ LET b1 == Nth(ob, 1)
               e1 == Nth(cb, 1)
               b2 == Nth(ob, 2)
               e2 == Nth(cb, 2)
               first == SubSeq(t, b1 + 1, e1 - 1)
               second == SubSeq(t, b2 + 1, e2 - 1)
           IN  /\ b1 = Len(VersionLine) + Len(DeclPrefix)
               /\ b2 = e1 + 1
               /\ IsNat(first) /\ NatValue(first) = w
               /\ IsNat(second) /\ NatValue(second) = h
               /\ Match(t, e2, DeclSuffix)
               /\ Cardinality(Pos(t, "\n")) >= 2
               /\ Nth(Pos(t, "\n"), 2) = e2 + Len(DeclSuffix) - 1

C1_Declaration == output # <<>> => DeclaresDims(output, image.w, image.h)

C1_Witness ==
    /\ pc = "exited" /\ result = "ok"
    /\ image.w = StripLen /\ image.h = 1
    /\ Match(output, Len(VersionLine) + 1,
             DeclPrefix \o ToDecimal(StripLen) \o DeclMiddle)

(***************************************************************************)
(* C2: the finished buffer holds exactly W row groups of exactly H         *)
(* elements (W*H in all), and the j-th element of the i-th row group is    *)
(* the pixel at (x = i, y = j) with its channels in the order red, green,  *)
(* blue, alpha.                                                            *)
(***************************************************************************)
C2_PixelPlacement ==
    Serialized =>
      LET doc == Doc(output)
      IN  /\ WellFormedGrid(output, doc)
          /\ doc.nElems = image.w * image.h
          /\ processed = image.w * image.h
          /\ \A i \in 1..image.w : \A j \in 1..image.h : \A k \in Channels :
               Literal(output, doc, i, j, k)
                 = FormatChannel(GetPixel(image, i - 1, j - 1)[k])

C2_Witness ==
    /\ Serialized
    /\ image.w = 2 /\ image.h = 1
    /\ GetPixel(image, 0, 0) # GetPixel(image, 1, 0)
    /\ Len(Doc(output).rows) = 2

(***************************************************************************)
(* C3: in the finished buffer every row group starts with a tab and "{";   *)
(* every element but the last of its row group is followed by ", " and the *)
(* last by "}"; every row group but the final one is followed by "," and a *)
(* newline; the final one by a newline and "};", which occurs once and     *)
(* ends the output.                                                        *)
(***************************************************************************)
C3_Separators ==
    Serialized =>
      LET t == output
          doc == Doc(t)
      IN  /\ Len(doc.rows) = image.w
          /\ \A i \in 1..image.w :
               LET r == doc.rows[i]
                   ends == doc.closes[i]
                   last == ends[Len(ends)]
               IN  /\ t[r - 1] = "\n"
                   /\ Match(t, r, RowOpen)
                   /\ Match(t, r + Len(RowOpen), Vec4Open)
                   /\ Len(ends) = image.h
                   /\ \A j \in 1..(Len(ends) - 1) :
                        /\ Match(t, ends[j] + 1, CommaSpace)
                        /\ Match(t, ends[j] + 1 + Len(CommaSpace), Vec4Open)
                   /\ Match(t, last + 1, RowClose)
                   /\ IF i < image.w
                      THEN /\ Match(t, last + 2, CommaNewline)
                           /\ doc.rowLast[i] = last + 1 + Len(CommaNewline)
                      ELSE /\ Match(t, last + 2, Terminator)
                           /\ Len(t) = last + 1 + Len(Terminator)
          /\ Cardinality({p \in 1..(Len(t) - 1) :
                            t[p] = "}" /\ t[p + 1] = ";"}) = 1

C3_Witness ==
    /\ Serialized
    /\ image.w = 2 /\ image.h = 2
    /\ Match(output, Len(output) - 2, Terminator)

(***************************************************************************)
(* C4: every channel literal of the finished buffer has exactly 7 digits   *)
(* after the decimal point, is the channel byte divided by 255 rounded to  *)
(* those 7 digits, and lies in [0.0, 1.0].                                 *)
(***************************************************************************)
C4_ChannelLiterals ==
    Serialized =>
      LET doc == Doc(output)
      IN  /\ WellFormedGrid(output, doc)
          /\ \A i \in 1..image.w : \A j \in 1..image.h : \A k \in Channels :
               LET lit == Literal(output, doc, i, j, k)
                   c == GetPixel(image, i - 1, j - 1)[k]
               IN  /\ IsFixed(lit, Precision)
                   /\ Scaled(lit) >= 0
                   /\ Scaled(lit) <= Pow10(Precision)
                   /\ 2 * Abs(Scaled(lit) * UnitDen - c * UnitNum) <= UnitDen

C4_Witness ==
    /\ Serialized
    /\ image.w = 1 /\ image.h = 1
    /\ GetPixel(image, 0, 0) = <<1, 1, 1, 1>>
    /\ Scaled(Literal(output, Doc(output), 1, 1, 1)) = 39216

(***************************************************************************)
(* C5: reading a channel literal of the finished buffer back, multiplying  *)
(* it by 255 and rounding to the nearest integer gives the channel byte of *)
(* the pixel it was written for, for every byte 0..255.                    *)
(***************************************************************************)
C5_RoundTrip ==
    Serialized =>
      LET doc == Doc(output)
      IN  /\ WellFormedGrid(output, doc)
          /\ \A i \in 1..image.w : \A j \in 1..image.h : \A k \in Channels :
               LET lit == Literal(output, doc, i, j, k)
               IN  /\ IsFixed(lit, Precision)
                   /\ RoundTripByte(Scaled(lit))
                        = GetPixel(image, i - 1, j - 1)[k]

C5_Witness ==
    /\ Serialized
    /\ image.w = 1 /\ image.h = 1
    /\ GetPixel(image, 0, 0) = <<254, 254, 254, 254>>
    /\ RoundTripByte(Scaled(Literal(output, Doc(output), 1, 1, 1))) = 254

(***************************************************************************)
(* C6: a 1x1 image whose pixel is (255,255,255,255) yields                 *)
(* "vec4(1.0000000, 1.0000000, 1.0000000, 1.0000000)" as the only element  *)
(* of the array, and a 1x1 image whose pixel is (0,0,0,0) yields           *)
(* "vec4(0.0000000, 0.0000000, 0.0000000, 0.0000000)".                     *)
(***************************************************************************)
OneLiteral == <<"1", ".", "0", "0", "0", "0", "0", "0", "0">>
ZeroLiteral == <<"0", ".", "0", "0", "0", "0", "0", "0", "0">>

Uniform(lit) ==
    Vec4Open \o lit \o CommaSpace \o lit \o CommaSpace \o lit
             \o CommaSpace \o lit \o Vec4Close

SolePixel(c) ==
    /\ image.w = 1 /\ image.h = 1
    /\ GetPixel(image, 0, 0) = <<c, c, c, c>>

SoleElement(t, text) ==
    LET doc == Doc(t)
    IN  /\ doc.nElems = 1
        /\ SubSeq(t, doc.body + 1, Len(t))
             = RowOpen \o text \o RowClose \o Terminator

C6_Boundary ==
    Serialized =>
      /\ SolePixel(ChannelMax) => SoleElement(output, Uniform(OneLiteral))
      /\ SolePixel(0) => SoleElement(output, Uniform(ZeroLiteral))

C6_Witness ==
    /\ Serialized
    /\ SolePixel(ChannelMax)
    /\ Match(output, Doc(output).elems[1][1], Uniform(OneLiteral))

(***************************************************************************)
(* C7: when opening, format-guessing or decoding the input fails, the run  *)
(* goes straight to the error report: the output path is never opened, the *)
(* output file is what it was when the program started (absent files stay  *)
(* absent), and the process exits with a non-zero code.                    *)
(***************************************************************************)
InputErrors == {"input_open", "input_read", "unsupported", "decode"}

C7_InputFailure ==
    result \in InputErrors =>
      /\ pc \in {"report", "exited"}
      /\ ~opened
      /\ outFile = oldFile
      /\ writes = 0
      /\ pc = "exited" => exitCode # 0 /\ exitCode # NoExit

C7_Witness ==
    /\ pc = "exited" /\ result = "input_open"
    /\ exitCode = ExitFailure
    /\ oldFile.exists /\ Len(oldFile.data) = OldLen

(***************************************************************************)
(* C8 as stated: exit code 0 after the success message when the run        *)
(* succeeds, and exit code 1 after the error was printed once on standard  *)
(* output on any failure, rejected command-line arguments included.        *)
(***************************************************************************)
Count(seq, e) == Cardinality({i \in 1..Len(seq) : seq[i] = e})

Succeeded == result = "ok"
RunFailed == result \notin {"none", "ok"}
ArgsRejected == Count(stderr, "usage") > 0
Panicked == Count(stderr, "panic") > 0

C8_Original ==
    pc = "exited" =>
      /\ Succeeded =>
           /\ exitCode = 0
           /\ stdout # <<>> /\ stdout[Len(stdout)] = "Done!"
      /\ (RunFailed \/ ArgsRejected) =>
           /\ exitCode = ExitFailure
           /\ Count(stdout, "error") = 1

(***************************************************************************)
(* C8 amended: exit code 0 after the success message when the run          *)
(* succeeds; exit code 1 after the error was printed once on standard      *)
(* output when run returns an error; nothing is retried.  Rejected         *)
(* arguments end the process in the argument parser with exit code 2 and   *)
(* nothing on standard output, and a panic ends it with exit code 101      *)
(* without the error line.                                                 *)
(***************************************************************************)
C8_ExitCodes ==
    /\ writes <= 1
    /\ Count(stdout, "error") + Count(stdout, "Done!") <= 1
    /\ pc = "exited" =>
         /\ exitCode # NoExit
         /\ Succeeded =>
              /\ exitCode = 0
              /\ stdout # <<>> /\ stdout[Len(stdout)] = "Done!"
              /\ Count(stdout, "error") = 0
         /\ RunFailed =>
              /\ exitCode = ExitFailure
              /\ stdout # <<>> /\ stdout[Len(stdout)] = "error"
              /\ Count(stdout, "error") = 1
         /\ ArgsRejected =>
              /\ exitCode = ExitUsage
              /\ stdout = <<>> /\ result = "none"
         /\ Panicked =>
              /\ exitCode = ExitPanic
              /\ Count(stdout, "error") = 0 /\ result = "none"
         /\ exitCode = 0 => Succeeded \/ stdout = <<"help">>

C8_Witness ==
    /\ pc = "exited" /\ result = "output_write"
    /\ exitCode = ExitFailure
    /\ Count(stdout, "error") = 1

(***************************************************************************)
(* C9: nothing is serialised before decoding has succeeded; the file is    *)
(* written by one write step, taken after the serialisation loop has ended *)
(* with the complete buffer (header, declaration, W*H elements and the     *)
(* terminator); before that step the only change to the file is its        *)
(* creation or truncation.                                                 *)
(***************************************************************************)
BufferComplete ==
    /\ x = image.w
    /\ processed = image.w * image.h
    /\ DeclaresDims(output, image.w, image.h)
    /\ Doc(output).nElems = image.w * image.h
    /\ Match(output, Len(output) - Len(Terminator) + 1, Terminator)

C9_PhaseOrder ==
    /\ []((output # <<>> \/ processed > 0 \/ pc \in {"loop_x", "loop_y"})
            => image # NoImage /\ format = "Some")
    /\ [](writes <= 1)
    /\ [][writes' # writes
            => pc = "write" /\ writes = 0 /\ BufferComplete
               /\ output' = output]_vars
    /\ [][(pc \in {"write", "report", "exited"}) => output' = output]_vars
    /\ [][outFile' # outFile
            => \/ writes' # writes
               \/ pc = "open_output" /\ outFile'.data = <<>>]_vars

C9_Witness ==
    /\ pc = "exited" /\ result = "ok" /\ writes = 1
    /\ image.w = 2 /\ image.h = 2
    /\ outFile.data = output

(***************************************************************************)
(* C10: the output path is opened (created, truncated) after decoding and  *)
(* before anything is serialised or written; from then on the file holds   *)
(* only bytes of the new buffer, never any of its previous content; after  *)
(* a successful run it holds exactly the serialised text, and after a      *)
(* failed write the previous content is gone.                              *)
(***************************************************************************)
C10_Truncate ==
    /\ ~opened => output = <<>> /\ writes = 0 /\ outFile = oldFile
    /\ opened =>
         /\ image # NoImage
         /\ outFile.exists
         /\ IsPrefix(outFile.data, output)
    /\ pc = "print_info" => opened /\ outFile.data = <<>> /\ output = <<>>
    /\ (pc = "exited" /\ result = "ok") => outFile = FileOf(output)
    /\ result = "output_write" =>
         /\ outFile.data # output
         /\ oldFile.data # <<>> => outFile # oldFile

C10_Witness ==
    /\ pc = "exited" /\ result = "ok"
    /\ Len(oldFile.data) = OldLen
    /\ Len(output) < OldLen
    /\ outFile.data = output
=============================================================================
